---- MODULE Spec2Model ----
(***************************************************************************)
(* pyleup.py: the trace-tree builder (tracer), the snapshot recorder       *)
(* (take_snapshot), the path filter (want / is_stdlib) and the report-row  *)
(* assembly of main(), driven by the interpreter's trace events.           *)
(*                                                                         *)
(* Strings that the code inspects character by character (paths) are       *)
(* tuples of one-character strings.  Python's None is NoneInt where an     *)
(* integer is expected and NoRef where a Node reference is expected.       *)
(* A Node reference is the 1-based position of the node in `nodes`.        *)
(*                                                                         *)
(* Spec          a traced run under the interpreter's trace protocol       *)
(* SpecScenario  the run of one scripted target program                    *)
(* SpecStream    tracer fed with events in any order                       *)
(* SpecFilter    want() alone, under changes of the working directory      *)
(* SpecMain      main() from the parsed command line onwards               *)
(***************************************************************************)
EXTENDS Integers, Sequences, FiniteSets, TLC

\* ------------------------------------------------------------- bounds ---
MaxEvents == 4       \* events delivered to the trace function per run
MaxLines == 2        \* largest value given to --lines

NoneInt == -1
NoRef == 0

\* -------------------------------------------------------------- paths ---
SEP == "/"

StartsWith(s, p) == Len(p) <= Len(s) /\ SubSeq(s, 1, Len(p)) = p

IsAbs(p) == StartsWith(p, <<SEP>>)

\* str.split("/")
RECURSIVE Split(_)
Split(s) ==
    IF s = <<>> THEN << <<>> >>
    ELSE LET r == Split(Tail(s)) IN
         IF Head(s) = SEP THEN << <<>> >> \o r
         ELSE << (<<Head(s)>> \o Head(r)) >> \o Tail(r)

\* "/".join(comps)
RECURSIVE JoinComps(_)
JoinComps(cs) ==
    IF cs = <<>> THEN <<>>
    ELSE IF Len(cs) = 1 THEN cs[1]
    ELSE cs[1] \o <<SEP>> \o JoinComps(Tail(cs))

\* posixpath.join(a, b)
PathJoin(a, b) ==
    IF IsAbs(b) THEN b
    ELSE IF a = <<>> \/ a[Len(a)] = SEP THEN a \o b
    ELSE a \o <<SEP>> \o b

\* posixpath.normpath; no path of the model has a ".." component
NormPath(p) ==
    IF p = <<>> THEN <<".">>
    ELSE LET initial == IF StartsWith(p, <<SEP, SEP>>) /\ ~StartsWith(p, <<SEP, SEP, SEP>>)
                        THEN <<SEP, SEP>>
                        ELSE IF IsAbs(p) THEN <<SEP>> ELSE <<>>
             comps == SelectSeq(Split(p), LAMBDA c : c # <<>> /\ c # <<".">>)
             full == initial \o JoinComps(comps)
         IN IF full = <<>> THEN <<".">> ELSE full

\* os.path.abspath(path) with the process's working directory d
AbsPath(path, d) == NormPath(IF IsAbs(path) THEN path ELSE PathJoin(d, path))

RECURSIVE RStripSep(_)
RStripSep(s) ==
    IF s # <<>> /\ s[Len(s)] = SEP THEN RStripSep(SubSeq(s, 1, Len(s) - 1)) ELSE s

RECURSIVE LastSep(_)
LastSep(s) ==
    IF s = <<>> THEN 0 ELSE IF s[Len(s)] = SEP THEN Len(s) ELSE LastSep(SubSeq(s, 1, Len(s) - 1))

\* os.path.dirname
DirName(p) ==
    LET head == SubSeq(p, 1, LastSep(p))
    IN IF head # <<>> /\ RStripSep(head) # <<>> THEN RStripSep(head) ELSE head

\* the file names of the model
ProgAbsName == <<"/", "p", "/", "s">>       \* the target script, given absolute
ProgRelName == <<"s">>                      \* the target script, given relative
SiblingFile == <<"/", "p", "/", "m">>       \* a module next to the script
StdlibFile == <<"/", "l", "/", "r">>        \* a module of the standard library
FrozenFile == <<"<", "f", ">">>             \* a synthetic name such as "<frozen runpy>"
ScriptDir == <<"/", "p">>
OtherDir == <<"/", "o">>
Cwds == {ScriptDir, OtherDir}

\* sysconfig.get_paths()["stdlib"], ["platstdlib"]
StdlibDir == <<"/", "l">>
PlatStdlibDir == <<"/", "l">>

\* sys.argv of the tool itself: its own name, then the target and its arguments
SelfName == <<"y">>
OwnArgv(rest) == <<SelfName>> \o rest

VARIABLES
    args,          \* parsed options: lines, include_stdlib, heap_stats, rest; and prog
    prog_abs,      \* os.path.abspath(prog) at start-up
    target_root,   \* os.path.dirname(prog_abs)
    cwd,           \* the process's working directory
    nodes,         \* list of Node
    stack,         \* list of Node references
    next_id,
    line_counter,
    snaps,         \* list of snapshot payloads
    frames,        \* the traced program's call stack, each frame with its f_trace
    tracing,       \* a trace function is installed (sys.settrace)
    tracemalloc_on, \* tracemalloc is tracing
    clock,         \* last reading of time.perf_counter_ns(), in ticks
    pc,            \* "main", "exit", "start", "run", "done", "crashed"
    rows,          \* rows prepared for the report
    ev,            \* the last event delivered to tracer
    events,        \* number of events delivered to tracer so far
    lineEvents,    \* number of line events among them
    script,        \* remaining steps of a scripted target program
    exit_status,   \* the process's exit status, None while it runs
    sys_argv       \* sys.argv

vars == <<args, prog_abs, target_root, cwd, nodes, stack, next_id, line_counter,
          snaps, frames, tracing, tracemalloc_on, clock, pc, rows, ev, events, lineEvents, script,
          exit_status, sys_argv>>

builder == <<nodes, stack, next_id, line_counter, snaps>>

\* ------------------------------------------------------------- filter ---
is_stdlib(path) ==
    IF path = <<>> THEN TRUE
    ELSE LET ap == AbsPath(path, cwd)
         IN StartsWith(ap, StdlibDir \o <<SEP>>) \/ StartsWith(ap, PlatStdlibDir \o <<SEP>>)

want(path) ==
    IF path = <<>> THEN FALSE
    ELSE LET apath == AbsPath(path, cwd) IN
         IF ~(apath = prog_abs \/ StartsWith(apath, target_root \o <<SEP>>)) THEN FALSE
         ELSE IF (~args.include_stdlib) /\ is_stdlib(apath) THEN FALSE
         ELSE TRUE

\* ------------------------------------------------------ data structures ---
Node(id, parent, name, file, first_line, depth, start_ns) ==
    [id |-> id, parent |-> parent, name |-> name, file |-> file,
     first_line |-> first_line, depth |-> depth, start_ns |-> start_ns,
     end_ns |-> NoneInt, lines |-> <<>>]

\* entries of Node.lines: (label, snap_index)
ChildEntry == [label |-> "__child__", n |-> 0, idx |-> NoneInt]
DefEntry(first_line, idx) == [label |-> "def@", n |-> first_line, idx |-> idx]
LineEntry(lineno, idx) == [label |-> "line", n |-> lineno, idx |-> idx]
ReturnEntry(idx) == [label |-> "return", n |-> 0, idx |-> idx]

Top == stack[Len(stack)]

\* ----------------------------------------------------------- snapshot ---
\* What can go wrong while a snapshot is captured:
\*   repr() of a local raises an Exception: the locals of `helper` hold such a value;
\*   tracemalloc.take_snapshot() raises: the traced program stopped tracemalloc;
\*   "locals": building the locals mapping raises outside safe_repr (a __repr__
\*   that binds a new name in the namespace being iterated).
Faults == {"none", "locals"}

\* safe_repr over the locals of the frame
safe_repr(frame) == IF frame.name = "helper" THEN "<unrepr>" ELSE "repr"

\* the exception leaves take_snapshot
SnapshotRaises(fault) == fault = "locals"

PayloadParentId(kind, frame, node_id, lineno, fault) ==
    [kind |-> kind, node_id |-> IF Len(stack) > 1 THEN nodes[stack[Len(stack) - 1]].id ELSE node_id,
     file |-> frame.file, lineno |-> lineno,
     func |-> frame.name, locals |-> safe_repr(frame),
     top |-> IF args.heap_stats
             THEN (IF tracemalloc_on THEN "tracemalloc_top" ELSE "tracemalloc_top_error")
             ELSE "absent"]

Payload(kind, frame, node_id, lineno, fault) ==
    [kind |-> kind, node_id |-> node_id, file |-> frame.file, lineno |-> lineno,
     func |-> frame.name, locals |-> safe_repr(frame),
     top |-> IF args.heap_stats
             THEN (IF tracemalloc_on THEN "tracemalloc_top" ELSE "tracemalloc_top_error")
             ELSE "absent"]

\* the snapshot list after take_snapshot returns: snaps.append(payload)
take_snapshot_prepend(kind, frame, node_id, lineno, fault) ==
    <<Payload(kind, frame, node_id, lineno, fault)>> \o snaps

take_snapshot(kind, frame, node_id, lineno, fault) ==
    Append(snaps, Payload(kind, frame, node_id, lineno, fault))

\* the index take_snapshot returns: len(snaps) - 1
SnapIndexOffByOne(s) == Len(s)

SnapIndex(s) == Len(s) - 1

\* ------------------------------------------------------------- tracer ---
NoEvent == [kind |-> "none", want |-> FALSE, raised |-> FALSE]

TracerRaises(frame, fault) == want(frame.file) /\ SnapshotRaises(fault)

\* n = Node(next_id, stack[-1] if stack else None, ..., len(stack), perf_counter_ns())
NewNodeDepthBug(frame, t) ==
    Node(next_id, IF stack # <<>> THEN Top ELSE NoRef, frame.name,
         frame.file, frame.first_line, Len(nodes), t)

NewNodeLateStart(frame, t) ==
    Node(next_id, IF stack # <<>> THEN Top ELSE NoRef, frame.name,
         frame.file, frame.first_line, Len(stack), t + 1)

NewNode(frame, t) ==
    Node(next_id, IF stack # <<>> THEN Top ELSE NoRef, frame.name,
         frame.file, frame.first_line, Len(stack), t)

\* if stack: stack[-1].lines.append(("__child__", None))
MarkParentNever == nodes

MarkParentTwice ==
    IF stack # <<>> THEN [nodes EXCEPT ![Top].lines = Append(Append(@, ChildEntry), ChildEntry)]
    ELSE nodes

MarkParent ==
    IF stack # <<>> THEN [nodes EXCEPT ![Top].lines = Append(@, ChildEntry)] ELSE nodes

\* what tracer returns for a call event: itself (TRUE) or None (FALSE)
LocalTraceAlways(frame, fault) == ~TracerRaises(frame, fault)

LocalTrace(frame, fault) == want(frame.file) /\ ~TracerRaises(frame, fault)

\* event == "call"
TracerCall(frame, fault, t) ==
    IF ~want(frame.file) THEN UNCHANGED <<builder, clock>>
    ELSE LET n == NewNode(frame, t)
             marked == MarkParent
             taken == take_snapshot("call", frame, n.id, n.first_line, fault)
         IN /\ clock' = t
            /\ next_id' = next_id + 1
            /\ stack' = Append(stack, Len(nodes) + 1)
            /\ UNCHANGED line_counter
            /\ IF SnapshotRaises(fault)
               THEN nodes' = Append(marked, n) /\ snaps' = snaps
               ELSE /\ snaps' = taken
                    /\ nodes' = Append(marked,
                          [n EXCEPT !.lines = <<DefEntry(n.first_line, SnapIndex(taken))>>])

\* event == "line"
TracerLineCountsAlways(frame, lineno, fault) ==
    IF ~want(frame.file) THEN UNCHANGED <<builder, clock>>
    ELSE /\ line_counter' = line_counter + 1
         /\ UNCHANGED <<stack, next_id, clock>>
         /\ IF stack # <<>> /\ args.lines > 0 /\ (line_counter + 1) % args.lines = 0
               /\ ~SnapshotRaises(fault)
            THEN LET taken == take_snapshot("line", frame, nodes[Top].id, lineno, fault)
                 IN /\ snaps' = taken
                    /\ nodes' = [nodes EXCEPT ![Top].lines =
                                    Append(@, LineEntry(lineno, SnapIndex(taken)))]
            ELSE UNCHANGED <<nodes, snaps>>

TracerLine(frame, lineno, fault) ==
    IF ~want(frame.file) THEN UNCHANGED <<builder, clock>>
    ELSE IF stack # <<>> /\ args.lines > 0
    THEN /\ line_counter' = line_counter + 1
         /\ UNCHANGED <<stack, next_id, clock>>
         /\ IF (line_counter + 1) % args.lines = 0 /\ ~SnapshotRaises(fault)
            THEN LET taken == take_snapshot("line", frame, nodes[Top].id, lineno, fault)
                 IN /\ snaps' = taken
                    /\ nodes' = [nodes EXCEPT ![Top].lines =
                                    Append(@, LineEntry(lineno, SnapIndex(taken)))]
            ELSE UNCHANGED <<nodes, snaps>>
    ELSE UNCHANGED <<builder, clock>>

LineRaises(frame, fault) ==
    /\ want(frame.file) /\ stack # <<>> /\ args.lines > 0
    /\ (line_counter + 1) % args.lines = 0
    /\ SnapshotRaises(fault)

\* event == "return"
TracerReturn(frame, lineno, fault, t) ==
    IF ~want(frame.file) THEN UNCHANGED <<builder, clock>>
    ELSE IF stack # <<>> /\ ~SnapshotRaises(fault)
    THEN LET taken == take_snapshot("return", frame, nodes[Top].id, lineno, fault)
         IN /\ snaps' = taken
            /\ clock' = t
            /\ nodes' = [nodes EXCEPT ![Top].end_ns = t,
                                      ![Top].lines = Append(@, ReturnEntry(SnapIndex(taken)))]
            /\ stack' = SubSeq(stack, 1, Len(stack) - 1)
            /\ UNCHANGED <<next_id, line_counter>>
    ELSE UNCHANGED <<builder, clock>>

ReturnRaises(frame, fault) == want(frame.file) /\ stack # <<>> /\ SnapshotRaises(fault)

\* ------------------------------------------------- the traced program ---
\* code objects the traced program can enter
RunPathCode(file) == [file |-> file, name |-> "run_path", first_line |-> 262]
ModuleCode == [file |-> args.prog, name |-> "<module>", first_line |-> 1]
OuterCode == [file |-> args.prog, name |-> "outer", first_line |-> 4]
InnerCode == [file |-> args.prog, name |-> "inner", first_line |-> 1]
HelperCode == [file |-> SiblingFile, name |-> "helper", first_line |-> 1]

\* runpy.py of the running interpreter: a file of the stdlib, or a frozen module
RunPathCodes == {RunPathCode(StdlibFile), RunPathCode(FrozenFile)}
Codes == {ModuleCode, HelperCode}

\* frame.f_lineno while the frame runs
LineNo(frame) == frame.first_line + 1

Frame(code, traced) ==
    [file |-> code.file, name |-> code.name, first_line |-> code.first_line,
     traced |-> traced]

TopFrame == frames[Len(frames)]

\* the activations that were given the trace function and have not returned
LiveTraced == SelectSeq(frames, LAMBDA f : f.traced)

\* time.perf_counter_ns(): every reading is later than the one before
Ticks == {clock + 1}

\* The interpreter enters a frame: with a trace function installed it calls
\* tracer(frame, "call", None) and keeps the result as the frame's f_trace; a
\* trace function that raises is uninstalled and the call does not take place.
Enter(code, fault, t, installed) ==
    LET frame == Frame(code, FALSE) IN
    IF installed
    THEN /\ TracerCall(frame, fault, t)
         /\ ev' = [kind |-> "call", want |-> want(code.file),
                   raised |-> TracerRaises(frame, fault)]
         /\ tracing' = ~TracerRaises(frame, fault)
         /\ events' = events + 1
         /\ frames' = IF TracerRaises(frame, fault) THEN frames
                      ELSE Append(frames, Frame(code, LocalTrace(frame, fault)))
    ELSE /\ UNCHANGED <<builder, clock, events>>
         /\ ev' = NoEvent
         /\ tracing' = FALSE
         /\ frames' = Append(frames, frame)

\* sys.settrace(tracer); runpy.run_path(prog, run_name="__main__")
DoStart(code, fault, t) ==
    /\ pc = "start"
    /\ Enter(code, fault, t, TRUE)
    /\ pc' = "run"
    /\ sys_argv' = <<args.prog>> \o Tail(args.rest)
    /\ UNCHANGED <<args, exit_status, prog_abs, target_root, cwd, tracemalloc_on, rows, lineEvents>>

DoCall(code, fault, t) ==
    /\ pc = "run"
    /\ frames # <<>>
    /\ Enter(code, fault, t, tracing)
    /\ UNCHANGED <<args, exit_status, sys_argv, prog_abs, target_root, cwd, tracemalloc_on, pc, rows, lineEvents>>

\* a line of a frame whose f_trace is set: tracer(frame, "line", None)
DoLine(lineno, fault) ==
    /\ pc = "run"
    /\ frames # <<>>
    /\ tracing
    /\ TopFrame.traced
    /\ TracerLine(TopFrame, lineno, fault)
    /\ ev' = [kind |-> "line", want |-> want(TopFrame.file),
              raised |-> LineRaises(TopFrame, fault)]
    /\ tracing' = ~LineRaises(TopFrame, fault)
    /\ events' = events + 1
    /\ lineEvents' = lineEvents + 1
    /\ UNCHANGED <<args, exit_status, sys_argv, prog_abs, target_root, cwd, frames, tracemalloc_on, pc, rows>>

\* the top frame returns or unwinds: tracer(frame, "return", arg) if f_trace is set
DoReturn(lineno, fault, t) ==
    /\ pc = "run"
    /\ frames # <<>>
    /\ frames' = SubSeq(frames, 1, Len(frames) - 1)
    /\ IF tracing /\ TopFrame.traced
       THEN /\ TracerReturn(TopFrame, lineno, fault, t)
            /\ ev' = [kind |-> "return", want |-> want(TopFrame.file),
                      raised |-> ReturnRaises(TopFrame, fault)]
            /\ tracing' = ~ReturnRaises(TopFrame, fault)
            /\ events' = events + 1
       ELSE /\ UNCHANGED <<builder, clock, tracing, events>>
            /\ ev' = NoEvent
    /\ UNCHANGED <<args, exit_status, sys_argv, prog_abs, target_root, cwd, tracemalloc_on, pc, rows, lineEvents>>

\* ------------------------------------------------------------- report ---
\* Python's `a or b` on an optional integer
OrNoFallback(a, b) == a

Or(a, b) == IF a = NoneInt \/ a = 0 THEN b ELSE a

\* dur_ms is the quotient <<numerator, denominator>>
Row(n) ==
    [id |-> n.id, name |-> n.name, file |-> n.file, first_line |-> n.first_line,
     depth |-> n.depth, dur_ms |-> <<Or(n.end_ns, n.start_ns) - n.start_ns, 1000000>>,
     lines |-> n.lines]

Rows == [i \in 1..Len(nodes) |-> Row(nodes[i])]

\* --------------------------------------------------------------- steps ---
Init ==
    /\ \E l \in 0..MaxLines, s \in BOOLEAN, h \in BOOLEAN,
          start \in {<<ProgRelName, ScriptDir>>, <<ProgAbsName, OtherDir>>} :
          /\ args = [lines |-> l, include_stdlib |-> s, heap_stats |-> h,
                      rest |-> <<start[1]>>, prog |-> start[1]]
          /\ cwd = start[2]
          /\ prog_abs = AbsPath(start[1], start[2])
          /\ target_root = DirName(AbsPath(start[1], start[2]))
    /\ nodes = <<>>
    /\ stack = <<>>
    /\ next_id = 1
    /\ line_counter = 0
    /\ snaps = <<>>
    /\ frames = <<>>
    /\ tracing = FALSE
    /\ tracemalloc_on = TRUE
    /\ clock = 1
    /\ pc = "start"
    /\ rows = <<>>
    /\ ev = NoEvent
    /\ events = 0
    /\ lineEvents = 0
    /\ script = <<>>
    /\ exit_status = NoneInt
    /\ sys_argv = OwnArgv(args.rest)

Start ==
    /\ \E code \in RunPathCodes, fault \in Faults, t \in Ticks : DoStart(code, fault, t)
    /\ UNCHANGED script

Call ==
    /\ tracing
    /\ events < MaxEvents
    /\ \E code \in Codes, fault \in Faults, t \in Ticks : DoCall(code, fault, t)
    /\ UNCHANGED script

Line ==
    /\ events < MaxEvents
    /\ \E fault \in Faults : DoLine(LineNo(TopFrame), fault)
    /\ UNCHANGED script

Return ==
    /\ (tracing /\ frames # <<>> /\ TopFrame.traced) => events < MaxEvents
    /\ \E fault \in Faults, t \in Ticks : DoReturn(LineNo(TopFrame), fault, t)
    /\ UNCHANGED script

\* the traced program calls os.chdir
Chdir ==
    /\ pc = "run"
    /\ frames # <<>>
    /\ \E d \in Cwds \ {cwd} : cwd' = d
    /\ ev' = NoEvent
    /\ UNCHANGED <<args, exit_status, sys_argv, prog_abs, target_root, builder, frames, tracing,
                   tracemalloc_on, clock, pc, rows, events, lineEvents, script>>

\* the traced program calls tracemalloc.stop()
StopTracemalloc ==
    /\ pc = "run"
    /\ frames # <<>>
    /\ tracemalloc_on
    /\ args.heap_stats
    /\ tracemalloc_on' = FALSE
    /\ ev' = NoEvent
    /\ UNCHANGED <<args, exit_status, sys_argv, prog_abs, target_root, cwd, builder, frames, tracing, clock,
                   pc, rows, events, lineEvents, script>>

\* the exception raised by the trace function leaves run_path and main
Crash ==
    /\ pc = "run"
    /\ ~tracing
    /\ pc' = "crashed"
    /\ exit_status' = 1
    /\ frames' = <<>>
    /\ ev' = NoEvent
    /\ UNCHANGED <<args, sys_argv, prog_abs, target_root, cwd, builder, tracing, tracemalloc_on,
                   clock, rows, events, lineEvents, script>>

\* run_path returned: sys.settrace(None), tracemalloc.stop(), then the rows are prepared
Finish ==
    /\ pc = "run"
    /\ frames = <<>>
    /\ tracing' = FALSE
    /\ tracemalloc_on' = FALSE
    /\ rows' = Rows
    /\ pc' = "done"
    /\ exit_status' = 0
    /\ ev' = NoEvent
    /\ UNCHANGED <<args, sys_argv, prog_abs, target_root, cwd, builder, frames, clock,
                   events, lineEvents, script>>

Next == Start \/ Call \/ Line \/ Return \/ Chdir \/ StopTracemalloc \/ Crash \/ Finish

Spec == Init /\ [][Next]_vars

\* ------------------------------------------------ a scripted program ---
\* The entry file
\*   1 def inner():      4 def outer():      8 outer()
\*   2     a = 1         5     x = 1
\*   3     b = 2         6     inner()
\*                       7     y = 2
\* as the events the interpreter produces for it under run_path.
ScenarioProgram ==
    << [op |-> "call", code |-> "<module>", n |-> 0],
       [op |-> "line", code |-> "", n |-> 1],
       [op |-> "line", code |-> "", n |-> 4],
       [op |-> "line", code |-> "", n |-> 8],
       [op |-> "call", code |-> "outer", n |-> 0],
       [op |-> "line", code |-> "", n |-> 5],
       [op |-> "line", code |-> "", n |-> 6],
       [op |-> "call", code |-> "inner", n |-> 0],
       [op |-> "line", code |-> "", n |-> 2],
       [op |-> "line", code |-> "", n |-> 3],
       [op |-> "return", code |-> "", n |-> 3],
       [op |-> "line", code |-> "", n |-> 7],
       [op |-> "return", code |-> "", n |-> 7],
       [op |-> "return", code |-> "", n |-> 8],
       [op |-> "return", code |-> "", n |-> 262] >>

CodeOf(name) ==
    IF name = "outer" THEN OuterCode ELSE IF name = "inner" THEN InnerCode ELSE ModuleCode

InitScenario ==
    /\ \E l \in 0..MaxLines, s \in BOOLEAN, h \in BOOLEAN,
          start \in {<<ProgRelName, ScriptDir>>, <<ProgAbsName, OtherDir>>} :
          /\ args = [lines |-> l, include_stdlib |-> s, heap_stats |-> h,
                      rest |-> <<start[1]>>, prog |-> start[1]]
          /\ cwd = start[2]
          /\ prog_abs = AbsPath(start[1], start[2])
          /\ target_root = DirName(AbsPath(start[1], start[2]))
    /\ nodes = <<>>
    /\ stack = <<>>
    /\ next_id = 1
    /\ line_counter = 0
    /\ snaps = <<>>
    /\ frames = <<>>
    /\ tracing = FALSE
    /\ tracemalloc_on = TRUE
    /\ clock = 1
    /\ pc = "start"
    /\ rows = <<>>
    /\ ev = NoEvent
    /\ events = 0
    /\ lineEvents = 0
    /\ script = ScenarioProgram
    /\ exit_status = NoneInt
    /\ sys_argv = OwnArgv(args.rest)

ScStart ==
    /\ \E code \in RunPathCodes, t \in Ticks : DoStart(code, "none", t)
    /\ UNCHANGED script

ScCall ==
    /\ script # <<>>
    /\ Head(script).op = "call"
    /\ \E t \in Ticks : DoCall(CodeOf(Head(script).code), "none", t)
    /\ script' = Tail(script)

ScLine ==
    /\ script # <<>>
    /\ Head(script).op = "line"
    /\ DoLine(Head(script).n, "none")
    /\ script' = Tail(script)

ScReturn ==
    /\ script # <<>>
    /\ Head(script).op = "return"
    /\ \E t \in Ticks : DoReturn(Head(script).n, "none", t)
    /\ script' = Tail(script)

ScFinish ==
    /\ script = <<>>
    /\ Finish

NextScenario == ScStart \/ ScCall \/ ScLine \/ ScReturn \/ ScFinish

SpecScenario == InitScenario /\ [][NextScenario]_vars

\* ------------------------------------------------------------ start-up ---
\* main() from the parsed command line to tracemalloc.start().  args.rest is
\* what argparse leaves in the REMAINDER positional: a leading "--" stays in it.
DashDash == <<"-", "-">>
Python3 == <<"p", "y">>
MissingName == <<"n">>                      \* no such file
ProgArg == <<"a">>                          \* an argument for the target script

\* the files that exist
Files == {ProgAbsName, SiblingFile, StdlibFile}

\* os.path.exists
Exists(p) == p \in Files

CommandLines ==
    { <<>>, <<ProgRelName>>, <<ProgRelName, ProgArg>>, <<ProgAbsName>>, <<MissingName>>,
      <<Python3, ProgRelName>>,
      <<DashDash, Python3, ProgRelName>>, <<DashDash, Python3, ProgRelName, ProgArg>> }

InitMain ==
    /\ \E r \in CommandLines, s \in BOOLEAN :
          args = [lines |-> 0, include_stdlib |-> s, heap_stats |-> FALSE,
                  rest |-> r, prog |-> <<>>]
    /\ cwd \in Cwds
    /\ prog_abs = <<>>
    /\ target_root = <<>>
    /\ nodes = <<>>
    /\ stack = <<>>
    /\ next_id = 1
    /\ line_counter = 0
    /\ snaps = <<>>
    /\ frames = <<>>
    /\ tracing = FALSE
    /\ tracemalloc_on = FALSE
    /\ clock = 1
    /\ pc = "main"
    /\ rows = <<>>
    /\ ev = NoEvent
    /\ events = 0
    /\ lineEvents = 0
    /\ script = <<>>
    /\ exit_status = NoneInt
    /\ sys_argv = OwnArgv(args.rest)

\* if not args.rest: sys.exit(2); prog, *prog_args = args.rest;
\* if not os.path.exists(prog_abs): sys.exit(1); ...; tracemalloc.start()
MainTracksFirst ==
    /\ pc = "main"
    /\ ev' = NoEvent
    /\ IF args.rest = <<>>
       THEN /\ exit_status' = 2
            /\ pc' = "exit"
            /\ UNCHANGED <<args, prog_abs, target_root, tracemalloc_on>>
       ELSE IF ~Exists(AbsPath(Head(args.rest), cwd))
       THEN /\ exit_status' = 1
            /\ pc' = "exit"
            /\ tracemalloc_on' = TRUE
            /\ UNCHANGED <<args, prog_abs, target_root>>
       ELSE /\ args' = [args EXCEPT !.prog = Head(args.rest)]
            /\ prog_abs' = AbsPath(Head(args.rest), cwd)
            /\ target_root' = DirName(AbsPath(Head(args.rest), cwd))
            /\ tracemalloc_on' = TRUE
            /\ pc' = "start"
            /\ UNCHANGED exit_status
    /\ UNCHANGED <<cwd, builder, frames, tracing, clock, rows, events, lineEvents,
                   script, sys_argv>>

Main ==
    /\ pc = "main"
    /\ ev' = NoEvent
    /\ IF args.rest = <<>>
       THEN /\ exit_status' = 2
            /\ pc' = "exit"
            /\ UNCHANGED <<args, prog_abs, target_root, tracemalloc_on>>
       ELSE IF ~Exists(AbsPath(Head(args.rest), cwd))
       THEN /\ exit_status' = 1
            /\ pc' = "exit"
            /\ UNCHANGED <<args, prog_abs, target_root, tracemalloc_on>>
       ELSE /\ args' = [args EXCEPT !.prog = Head(args.rest)]
            /\ prog_abs' = AbsPath(Head(args.rest), cwd)
            /\ target_root' = DirName(AbsPath(Head(args.rest), cwd))
            /\ tracemalloc_on' = TRUE
            /\ pc' = "start"
            /\ UNCHANGED exit_status
    /\ UNCHANGED <<cwd, builder, frames, tracing, clock, rows, events, lineEvents,
                   script, sys_argv>>

NextMain == Main \/ Start \/ Call \/ Line \/ Return \/ Crash \/ Finish

SpecMain == InitMain /\ [][NextMain]_vars

\* ---------------------------------------------- an arbitrary event stream ---
\* tracer as the builder's entry point: called with any event for any code
\* object in any order, while it stays installed.  Two readings of
\* time.perf_counter_ns() may be equal; --lines may be negative.
Readings == {clock, clock + 1}

StreamCodes == {RunPathCode(StdlibFile)} \cup Codes

InitStream ==
    /\ \E l \in (-1)..MaxLines :
          args = [lines |-> l, include_stdlib |-> FALSE, heap_stats |-> FALSE,
                  rest |-> <<ProgRelName>>, prog |-> ProgRelName]
    /\ cwd = ScriptDir
    /\ prog_abs = AbsPath(ProgRelName, ScriptDir)
    /\ target_root = DirName(AbsPath(ProgRelName, ScriptDir))
    /\ nodes = <<>>
    /\ stack = <<>>
    /\ next_id = 1
    /\ line_counter = 0
    /\ snaps = <<>>
    /\ frames = <<>>
    /\ tracing = TRUE
    /\ tracemalloc_on = TRUE
    /\ clock = 1
    /\ pc = "run"
    /\ rows = <<>>
    /\ ev = NoEvent
    /\ events = 0
    /\ lineEvents = 0
    /\ script = <<>>
    /\ exit_status = NoneInt
    /\ sys_argv = OwnArgv(args.rest)

StreamCall ==
    /\ tracing
    /\ events < MaxEvents
    /\ \E code \in StreamCodes, fault \in Faults, t \in Readings :
          /\ TracerCall(Frame(code, FALSE), fault, t)
          /\ ev' = [kind |-> "call", want |-> want(code.file),
                    raised |-> TracerRaises(Frame(code, FALSE), fault)]
          /\ tracing' = ~TracerRaises(Frame(code, FALSE), fault)
    /\ events' = events + 1
    /\ UNCHANGED <<args, exit_status, sys_argv, prog_abs, target_root, cwd, frames, tracemalloc_on, pc, rows,
                   lineEvents, script>>

StreamLine ==
    /\ tracing
    /\ events < MaxEvents
    /\ \E code \in StreamCodes, fault \in Faults :
          /\ TracerLine(Frame(code, TRUE), LineNo(Frame(code, TRUE)), fault)
          /\ ev' = [kind |-> "line", want |-> want(code.file),
                    raised |-> LineRaises(Frame(code, TRUE), fault)]
          /\ tracing' = ~LineRaises(Frame(code, TRUE), fault)
    /\ events' = events + 1
    /\ lineEvents' = lineEvents + 1
    /\ UNCHANGED <<args, exit_status, sys_argv, prog_abs, target_root, cwd, frames, tracemalloc_on, pc, rows, script>>

StreamReturn ==
    /\ tracing
    /\ events < MaxEvents
    /\ \E code \in StreamCodes, fault \in Faults, t \in Readings :
          /\ TracerReturn(Frame(code, TRUE), LineNo(Frame(code, TRUE)), fault, t)
          /\ ev' = [kind |-> "return", want |-> want(code.file),
                    raised |-> ReturnRaises(Frame(code, TRUE), fault)]
          /\ tracing' = ~ReturnRaises(Frame(code, TRUE), fault)
    /\ events' = events + 1
    /\ UNCHANGED <<args, exit_status, sys_argv, prog_abs, target_root, cwd, frames, tracemalloc_on, pc, rows,
                   lineEvents, script>>

NextStream == StreamCall \/ StreamLine \/ StreamReturn

SpecStream == InitStream /\ [][NextStream]_vars

\* ----------------------------------------------------- the filter alone ---
\* want asked about a location, with the configuration main() computed at
\* start-up, while the traced program may change the working directory.
StdlibScript == <<"/", "l", "/", "s">>      \* a target script inside the stdlib directory
RootScript == <<"/", "s">>                  \* a target script in the root directory
RootFile == <<"/", "m">>                    \* a module next to it
OutsideFile == <<"/", "o", "/", "x">>       \* a file outside every target root but "/"

Locations == {<<>>, FrozenFile, ProgRelName, ProgAbsName, SiblingFile, StdlibFile,
              StdlibScript, RootScript, RootFile, OutsideFile}

FilterCwds == Cwds \cup {StdlibDir}

InitFilter ==
    /\ \E s \in BOOLEAN,
          start \in {<<ProgRelName, ScriptDir>>, <<ProgAbsName, OtherDir>>,
                     <<StdlibScript, OtherDir>>, <<RootScript, OtherDir>>} :
          /\ args = [lines |-> 0, include_stdlib |-> s, heap_stats |-> FALSE,
                      rest |-> <<start[1]>>, prog |-> start[1]]
          /\ cwd = start[2]
          /\ prog_abs = AbsPath(start[1], start[2])
          /\ target_root = DirName(AbsPath(start[1], start[2]))
    /\ nodes = <<>>
    /\ stack = <<>>
    /\ next_id = 1
    /\ line_counter = 0
    /\ snaps = <<>>
    /\ frames = <<>>
    /\ tracing = FALSE
    /\ tracemalloc_on = TRUE
    /\ clock = 1
    /\ pc = "start"
    /\ rows = <<>>
    /\ ev = NoEvent
    /\ events = 0
    /\ lineEvents = 0
    /\ script = <<>>
    /\ exit_status = NoneInt
    /\ sys_argv = OwnArgv(args.rest)

\* want(path) is evaluated; ev keeps the question and the answer
WantAsk ==
    /\ \E path \in Locations :
          ev' = [kind |-> "want", want |-> want(path), raised |-> FALSE, path |-> path]
    /\ UNCHANGED <<args, exit_status, sys_argv, prog_abs, target_root, cwd, builder, frames, tracing,
                   tracemalloc_on, clock, pc, rows, events, lineEvents, script>>

\* os.chdir between two questions
FilterChdir ==
    /\ \E d \in FilterCwds \ {cwd} : cwd' = d
    /\ UNCHANGED <<args, exit_status, sys_argv, prog_abs, target_root, builder, frames, tracing,
                   tracemalloc_on, clock, pc, rows, ev, events, lineEvents, script>>

NextFilter == WantAsk \/ FilterChdir

SpecFilter == InitFilter /\ [][NextFilter]_vars

\* ============================================================== claims ===
NodeRefs == 1..Len(nodes)

RECURSIVE Ancestors(_)
Ancestors(r) == IF nodes[r].parent = NoRef THEN 0 ELSE 1 + Ancestors(nodes[r].parent)

\* C1: every node's depth is the number of ancestors found by following parent
\* to None: a parentless node has depth 0, any other node its parent's depth + 1.
C1_DepthCountsAncestors ==
    \A r \in NodeRefs :
        /\ nodes[r].parent \in 0..(r - 1)
        /\ nodes[r].depth = Ancestors(r)
        /\ nodes[r].parent = NoRef => nodes[r].depth = 0
        /\ nodes[r].parent # NoRef => nodes[r].depth = nodes[nodes[r].parent].depth + 1

\* a node at depth 2 under a parent at depth 1, after a node has been popped
C1_Witness ==
    \E r \in NodeRefs :
        /\ nodes[r].depth = 2
        /\ nodes[nodes[r].parent].depth = 1
        /\ Len(stack) < Len(nodes)

\* C2 as stated: no node is ever created while an activation that was refused
\* its trace function is on the traced program's call stack.
C2_NoNodeBelowExcluded ==
    [][Len(nodes') > Len(nodes) => \A i \in 1..Len(frames) : frames[i].traced]_vars

\* C2 amended: a call event whose location the filter rejects changes nothing in
\* the builder (no node, no snapshot) and leaves the activation without a trace
\* function, so none of its line or return events is delivered; a call event whose
\* location passes the filter creates a node whatever activations enclose it.
C2_ExcludedCallOnly ==
    /\ [](ev.kind = "call" /\ ~ev.want => frames # <<>> /\ ~TopFrame.traced)
    /\ [][ev'.kind = "call" /\ events' # events
            => IF ev'.want THEN Len(nodes') = Len(nodes) + 1
               ELSE UNCHANGED builder]_vars

\* a rejected call has just been made inside an admitted activation, and an
\* admitted activation runs inside a rejected one
C2_Witness ==
    /\ ev.kind = "call" /\ ~ev.want
    /\ Len(frames) = 3
    /\ ~frames[1].traced /\ frames[2].traced /\ ~frames[3].traced
    /\ Len(nodes) = 1

\* references of the nodes whose end_ns is still None, in creation order
RECURSIVE OpenUpTo(_)
OpenUpTo(k) ==
    IF k = 0 THEN <<>>
    ELSE IF nodes[k].end_ns = NoneInt THEN Append(OpenUpTo(k - 1), k) ELSE OpenUpTo(k - 1)

OpenRefs == OpenUpTo(Len(nodes))

\* C3: the stack holds exactly the admitted activations that have had their call
\* event and not yet their return event, bottom to top in call order: every node
\* with end_ns unset exactly once, no finalized node, each entry's parent just below.
C3_StackMirrorsOpenActivations ==
    /\ stack = OpenRefs
    /\ \A i \in 2..Len(stack) : nodes[stack[i]].parent = stack[i - 1]
    /\ tracing =>
          /\ Len(stack) = Len(LiveTraced)
          /\ \A i \in 1..Len(stack) :
                /\ nodes[stack[i]].name = LiveTraced[i].name
                /\ nodes[stack[i]].file = LiveTraced[i].file

\* the entries of all event logs that carry a snapshot handle
HandleEntries ==
    UNION {{<<r, k>> : k \in {j \in 1..Len(nodes[r].lines) :
                                  nodes[r].lines[j].label # "__child__"}} : r \in NodeRefs}

\* C4: node ids are strictly increasing in creation order and never reused,
\* the handles issued are exactly 0..len(snaps)-1, each issued once, and every
\* handle in an event log lies in that range; child markers carry None.
C4_IdsAndHandles ==
    /\ \A i, j \in NodeRefs : i < j => nodes[i].id < nodes[j].id
    /\ \A i \in NodeRefs : nodes[i].id < next_id
    /\ \A r \in NodeRefs : \A k \in 1..Len(nodes[r].lines) :
          IF nodes[r].lines[k].label = "__child__"
          THEN nodes[r].lines[k].idx = NoneInt
          ELSE nodes[r].lines[k].idx \in 0..(Len(snaps) - 1)
    /\ {nodes[e[1]].lines[e[2]].idx : e \in HandleEntries} = 0..(Len(snaps) - 1)
    /\ Cardinality(HandleEntries) = Len(snaps)

\* three nodes, a child marker and at least four snapshots
C4_Witness ==
    /\ Len(nodes) = 3
    /\ Len(snaps) >= 4
    /\ \E r \in NodeRefs : \E k \in 1..Len(nodes[r].lines) :
          nodes[r].lines[k].label = "__child__"

\* C5: with --lines N > 0 the k-th line event delivered in the run takes a line
\* snapshot exactly when k is a multiple of N.
C5_EveryNthLineEvent ==
    [][(ev'.kind = "line" /\ events' # events /\ args.lines > 0)
         => ((Len(snaps') = Len(snaps) + 1 /\ snaps'[Len(snaps')].kind = "line")
              <=> lineEvents' % args.lines = 0)]_vars

\* C7: a return event delivered while the stack is non-empty takes one return
\* snapshot tagged with the top node's id, sets that node's end_ns, appends
\* ("return", handle) to its log and pops it; nothing else changes.
C7_ReturnFinalizesTop ==
    [][(ev'.kind = "return" /\ events' # events /\ stack # <<>>)
         => /\ Len(snaps') = Len(snaps) + 1
            /\ SubSeq(snaps', 1, Len(snaps)) = snaps
            /\ snaps'[Len(snaps')].kind = "return"
            /\ snaps'[Len(snaps')].node_id = nodes[Top].id
            /\ nodes'[Top].end_ns # NoneInt
            /\ nodes'[Top].lines = Append(nodes[Top].lines, ReturnEntry(Len(snaps)))
            /\ stack' = SubSeq(stack, 1, Len(stack) - 1)
            /\ Len(nodes') = Len(nodes)
            /\ \A r \in NodeRefs : r # Top => nodes'[r] = nodes[r]
            /\ UNCHANGED <<next_id, line_counter>>]_vars

\* C8: no call, line or return event fails loudly: no exception leaves the trace
\* function and the run is never aborted by one.
C8_NoLoudFailure == ~ev.raised /\ pc # "crashed"

LabelKind(label) ==
    IF label = "def@" THEN "call" ELSE IF label = "line" THEN "line" ELSE "return"

\* C9: the snapshot list only grows at its end and no record in it ever changes,
\* and in the finished report every handle of every row resolves to the record
\* captured for that row's node by the event the entry's label names.
C9_AppendOnlyLog ==
    /\ [][/\ Len(snaps') >= Len(snaps)
          /\ \A i \in 1..Len(snaps) : snaps'[i] = snaps[i]]_vars
    /\ [](pc = "done" =>
            \A i \in 1..Len(rows) : \A k \in 1..Len(rows[i].lines) :
                LET e == rows[i].lines[k] IN
                e.label # "__child__" =>
                    /\ e.idx + 1 \in 1..Len(snaps)
                    /\ snaps[e.idx + 1].node_id = rows[i].id
                    /\ snaps[e.idx + 1].kind = LabelKind(e.label)
                    /\ e.label # "return" => snaps[e.idx + 1].lineno = e.n)

\* a finished report with two rows and four snapshots
C9_Witness == pc = "done" /\ Len(rows) = 2 /\ Len(snaps) = 4

\* C10: when the events stop with nodes still open, those nodes keep end_ns unset
\* and the rows are still prepared, one per node in creation order, with duration
\* 0 for an open node and end_ns - start_ns (in ms) for a finalized one.
C10_OpenNodesReportZero ==
    pc = "done" =>
        /\ \A i \in 1..Len(stack) : nodes[stack[i]].end_ns = NoneInt
        /\ Len(rows) = Len(nodes)
        /\ \A i \in NodeRefs :
              /\ rows[i].id = nodes[i].id
              /\ rows[i].lines = nodes[i].lines
              /\ rows[i].dur_ms =
                    IF nodes[i].end_ns = NoneInt THEN <<0, 1000000>>
                    ELSE <<nodes[i].end_ns - nodes[i].start_ns, 1000000>>

\* a report with an open node and a finalized node of positive duration
C10_Witness ==
    /\ pc = "done"
    /\ stack # <<>>
    /\ \E i \in NodeRefs : nodes[i].end_ns # NoneInt /\ rows[i].dur_ms[1] > 0
    /\ \E i \in NodeRefs : nodes[i].end_ns = NoneInt /\ rows[i].dur_ms[1] = 0

\* the rows of the entry file's own code
OwnRows == SelectSeq(rows, LAMBDA r : r.file = args.prog)

Labels(row) == [k \in 1..Len(row.lines) |-> row.lines[k].label]

C11_EndNotBeforeStart ==
    \A r \in NodeRefs :
        (nodes[r].end_ns # NoneInt \/ \E k \in 1..Len(nodes[r].lines) :
                                          nodes[r].lines[k].label = "return")
            => /\ nodes[r].end_ns # NoneInt
               /\ nodes[r].end_ns >= nodes[r].start_ns

\* one node finalized on the very reading it started at, another one later
C11_Witness ==
    /\ \E r \in NodeRefs : nodes[r].end_ns = nodes[r].start_ns
    /\ \E r \in NodeRefs : nodes[r].end_ns > nodes[r].start_ns

\* loc lies beneath the directory dir
IsUnder(loc, dir) ==
    LET prefix == IF dir = <<SEP>> THEN dir ELSE dir \o <<SEP>>
    IN StartsWith(loc, prefix) /\ Len(loc) > Len(prefix)

\* C12: for an absolute location the filter answers yes exactly when the
\* location lies beneath the root directory and, unless --include-stdlib is
\* given, not beneath the standard library; and asked twice about the same
\* location under the same configuration it gives the same answer.
C12_FilterRule ==
    /\ [](ev.kind = "want" /\ IsAbs(ev.path)
            => (ev.want <=> (/\ IsUnder(ev.path, target_root)
                             /\ args.include_stdlib \/ ~IsUnder(ev.path, StdlibDir))))
    /\ [][(ev.kind = "want" /\ ev'.kind = "want" /\ ev'.path = ev.path)
            => ev'.want = ev.want]_vars

\* C13: the empty location and a synthetic name such as "<string>" are
\* rejected whatever the root, the working directory and the flag.
C13_SyntheticExcluded ==
    (ev.kind = "want" /\ ev.path \in {<<>>, FrozenFile}) => ~ev.want

\* C14: a line event with the stack empty or with --lines <= 0, and a return
\* event with the stack empty, leave nodes, stack, next_id, line_counter and
\* snaps as they were; with --lines <= 0 the line counter stays 0 and no
\* snapshot of kind "line" exists.
C14_NoOpEvents ==
    /\ [][(\/ ev'.kind = "line" /\ events' # events /\ (stack = <<>> \/ args.lines <= 0)
           \/ ev'.kind = "return" /\ events' # events /\ stack = <<>>)
            => UNCHANGED builder]_vars
    /\ [](args.lines <= 0 =>
            /\ line_counter = 0
            /\ \A i \in 1..Len(snaps) : snaps[i].kind # "line")

\* a return event for an admitted location arrives on a stack emptied by an
\* earlier return, after a line event under a negative --lines
C14_Witness ==
    /\ ev.kind = "return" /\ ev.want
    /\ stack = <<>> /\ Len(nodes) = 1 /\ nodes[1].end_ns # NoneInt
    /\ Len(snaps) = 2
    /\ events = 4 /\ lineEvents = 1
    /\ args.lines < 0

\* C15: when the target named on the command line does not exist the process
\* ends with status 1 (status 2 is the one for a missing target argument) and
\* nothing was started: tracemalloc is off, no trace function is installed,
\* there are no nodes, no snapshots, no events and no rows.
C15_MissingTargetAborts ==
    /\ (pc # "main" /\ args.rest # <<>> /\ ~Exists(AbsPath(Head(args.rest), cwd)))
          => /\ pc = "exit"
             /\ exit_status = 1
             /\ ~tracemalloc_on /\ ~tracing
             /\ nodes = <<>> /\ snaps = <<>> /\ rows = <<>>
             /\ events = 0 /\ frames = <<>>
    /\ (pc # "main" /\ args.rest = <<>>) => (pc = "exit" /\ exit_status = 2)

\* the run was aborted for a target that does not exist
C15_Witness ==
    /\ pc = "exit" /\ exit_status = 1
    /\ args.rest = <<MissingName>>

\* C16: started from the script's directory as `-- python3 your_script.py
\* [args]`, the program takes your_script.py as the target: prog_abs is its
\* path, target_root its directory, it is the file given to run_path, and the
\* script sees the remaining arguments in sys.argv.
C16_DocumentedForm ==
    (pc # "main" /\ cwd = ScriptDir /\ StartsWith(args.rest, <<DashDash, Python3, ProgRelName>>))
        => /\ pc # "exit"
           /\ args.prog = ProgRelName
           /\ prog_abs = ProgAbsName
           /\ target_root = ScriptDir
           /\ pc # "start" => sys_argv = SubSeq(args.rest, 3, Len(args.rest))

\* the child markers in a node's log, and the nodes created under it
Markers(r) == {k \in 1..Len(nodes[r].lines) : nodes[r].lines[k].label = "__child__"}
Children(r) == {c \in NodeRefs : nodes[c].parent = r}

\* C17: an admitted call event on a non-empty stack appends exactly one child
\* marker, without a snapshot handle, to the log of the node on top of the
\* stack and touches no other existing node; the marker is there even when the
\* new node's def entry is not (yet) recorded; on an empty stack no existing
\* log changes.  So in every state a node has as many markers as children.
C17_ChildMarkers ==
    /\ [](\A r \in NodeRefs :
            /\ Cardinality(Markers(r)) = Cardinality(Children(r))
            /\ \A k \in Markers(r) : nodes[r].lines[k] = ChildEntry)
    /\ [][(ev'.kind = "call" /\ events' # events /\ ev'.want)
            => /\ Len(nodes') = Len(nodes) + 1
               /\ \A k \in 1..Len(nodes'[Len(nodes')].lines) :
                     nodes'[Len(nodes')].lines[k].label = "def@"
               /\ Len(nodes'[Len(nodes')].lines) = IF ev'.raised THEN 0 ELSE 1
               /\ \A r \in NodeRefs :
                     IF stack # <<>> /\ r = Top
                     THEN nodes'[r] = [nodes[r] EXCEPT !.lines = Append(@, ChildEntry)]
                     ELSE nodes'[r] = nodes[r]]_vars

\* a node that has had two children, the first of them finalized
C17_Witness ==
    \E r \in NodeRefs :
        /\ Cardinality(Children(r)) = 2
        /\ Cardinality(Markers(r)) = 2
        /\ \E c \in Children(r) : nodes[c].end_ns # NoneInt

\* the log entries that hold the snapshot handle h
EntriesOf(h) == {e \in HandleEntries : nodes[e[1]].lines[e[2]].idx = h}

\* C19: snapshots and non-marker log entries correspond one to one: every
\* handle 0..len(snaps)-1 is held by exactly one entry of one node, the
\* snapshot names that node's id, its kind is the one the entry's label stands
\* for (def@first_line: call at first_line, a line number: line at that line,
\* "return": return), every non-marker entry holds such a handle, and the
\* handles within one log increase strictly.
C19_SnapshotsMatchEntries ==
    /\ \A h \in 0..(Len(snaps) - 1) :
          /\ Cardinality(EntriesOf(h)) = 1
          /\ \A e \in EntriesOf(h) :
                LET entry == nodes[e[1]].lines[e[2]]
                    snap == snaps[h + 1]
                IN /\ snap.node_id = nodes[e[1]].id
                   /\ snap.kind = LabelKind(entry.label)
                   /\ entry.label = "def@" =>
                         entry.n = nodes[e[1]].first_line /\ snap.lineno = entry.n
                   /\ entry.label = "line" => snap.lineno = entry.n
    /\ \A e \in HandleEntries : nodes[e[1]].lines[e[2]].idx \in 0..(Len(snaps) - 1)
    /\ \A r \in NodeRefs : \A j, k \in 1..Len(nodes[r].lines) :
          (j < k /\ <<r, j>> \in HandleEntries /\ <<r, k>> \in HandleEntries)
              => nodes[r].lines[j].idx < nodes[r].lines[k].idx

\* a parent's log holds def, line and return handles around those of its child
C19_Witness ==
    \E r \in NodeRefs : \E c \in Children(r) :
        /\ Len(nodes[c].lines) >= 2
        /\ \E j, k \in 1..Len(nodes[r].lines) :
              /\ nodes[r].lines[j].label = "def@"
              /\ nodes[r].lines[k].label \in {"line", "return"}
              /\ nodes[r].lines[j].idx < nodes[c].lines[1].idx
              /\ nodes[c].lines[2].idx < nodes[r].lines[k].idx

\* the positions of the return entries in a node's log
ReturnEntries(r) == {k \in 1..Len(nodes[r].lines) : nodes[r].lines[k].label = "return"}

\* C20: every node's log begins with its def entry, holds at most one return
\* entry, which is then the last entry, and a node that has been finalized and
\* popped is never changed again.
C20_LogShape ==
    /\ [](\A r \in NodeRefs :
            /\ nodes[r].lines # <<>>
            /\ nodes[r].lines[1].label = "def@"
            /\ \A k \in 2..Len(nodes[r].lines) : nodes[r].lines[k].label # "def@"
            /\ Cardinality(ReturnEntries(r)) <= 1
            /\ ReturnEntries(r) \subseteq {Len(nodes[r].lines)})
    /\ [][\A r \in NodeRefs :
            (nodes[r].end_ns # NoneInt /\ \A i \in 1..Len(stack) : stack[i] # r)
                => nodes'[r] = nodes[r]]_vars

\* every node has end_ns set and a return entry in its log
AllFinalized ==
    \A r \in NodeRefs : nodes[r].end_ns # NoneInt /\ ReturnEntries(r) # {}

\* C18: once every activation of the traced program has returned, each with
\* its return event delivered to the installed trace function, the stack is
\* empty and every node is finalized; and a finalized node is never on the
\* stack afterwards.
C18_AllReturnedAllFinalized ==
    /\ []((pc = "run" /\ tracing /\ frames = <<>>) => (stack = <<>> /\ AllFinalized))
    /\ [][\A r \in NodeRefs : nodes[r].end_ns # NoneInt
              => \A i \in 1..Len(stack') : stack'[i] # r]_vars

====
